---- MODULE Spec2Model ----
(***************************************************************************)
(* Model of CheckHash: check_hash.py (main and the __main__ block),        *)
(* compare_hashes.py (the comparator and the digest engine) and            *)
(* exceptions.py (UnequalFileHashNumberError).                             *)
(*                                                                         *)
(* Positions are 1-based here (the i-th pair of the zip), strings are      *)
(* sequences of one-character strings so that str.lower() and hexdigest()  *)
(* are computed, and a printed line is the tuple of print()'s arguments.   *)
(***************************************************************************)
EXTENDS Integers, Sequences, FiniteSets, TLC

VARIABLES entry, args_files, args_hashes, hash_func, files, pc, i, file,
          expected_hash, file_hash, pending, open_handles, output, error,
          exit_status, stderr, trace

vars == <<entry, args_files, args_hashes, hash_func, files, pc, i, file,
          expected_hash, file_hash, pending, open_handles, output, error,
          exit_status, stderr, trace>>

\* Longest argument list (files or expected hashes) explored.
MaxLen == 2

(***************************** the environment *****************************)

\* The file system the run sees: "a" and "b" are regular files, "l" is a
\* symbolic link to "b", "m" does not exist, "p" exists but cannot be opened,
\* "e" opens but fails while being read.
FileNames == {"a", "b", "l", "m", "p", "e"}

Exists(name) == name # "m"

Canonical(name) == IF name = "l" THEN "b" ELSE name

Openable(name) == Exists(name) /\ name # "p"

Readable(name) == name # "e"

\* File contents as byte sequences.
Content(name) ==
    IF Canonical(name) = "a" THEN <<104, 105>> ELSE <<121, 111>>

RelPath(name) == [abs |-> FALSE, name |-> name]

AbsPath(name) == [abs |-> TRUE, name |-> name]

\* Paths given on the command line (relative to the working directory).
MainPaths == {RelPath("a"), RelPath("l"), RelPath("m"), RelPath("p"), RelPath("e")}

\* Paths handed to the comparator when it is called directly.
DirectPaths == {AbsPath("a"), AbsPath("b"), AbsPath("m"), AbsPath("e"), RelPath("a")}

(****************************** pure functions *****************************)

RECURSIVE SumBytes(_)
SumBytes(s) == IF s = <<>> THEN 0 ELSE Head(s) + SumBytes(Tail(s))

MapSeq(F(_), s) == [k \in 1..Len(s) |-> F(s[k])]

\* enum.StrEnum with enum.auto(): the value of a member is its lower-cased name.
HashFunctionMembers == {"MD5", "SHA1", "SHA225", "SHA256", "SHA384", "SHA512"}

AutoValue(member) ==
    CASE member = "MD5" -> "md5"
      [] member = "SHA1" -> "sha1"
      [] member = "SHA225" -> "sha225"
      [] member = "SHA256" -> "sha256"
      [] member = "SHA384" -> "sha384"
      [] member = "SHA512" -> "sha512"

\* choices=[hash_func.value for hash_func in _HashFunction]
HashFunctionChoices == {AutoValue(m) : m \in HashFunctionMembers}

\* default=_HashFunction.SHA256.value
DefaultHashFunction == AutoValue("SHA256")

\* args.hash_function after parse_args: the option's value, or the default.
ParseHashFunction(opt) == IF opt = "<absent>" THEN DefaultHashFunction ELSE opt

\* The algorithm names hashlib.new() knows (those of the closed set).
HashlibAlgorithms == {"md5", "sha1", "sha224", "sha256", "sha384", "sha512"}

Salt(alg) ==
    CASE alg = "md5" -> 0
      [] alg = "sha1" -> 9
      [] alg = "sha224" -> 26
      [] alg = "sha256" -> 43
      [] alg = "sha384" -> 60
      [] alg = "sha512" -> 77
      [] OTHER -> 0

\* hashlib.file_digest(f, alg).digest(): a one-byte stand-in for the hash,
\* a function of the whole content and of the algorithm.
DigestBytes(content, alg) == <<(SumBytes(content) + Salt(alg)) % 256>>

HexDigits == <<"0", "1", "2", "3", "4", "5", "6", "7",
               "8", "9", "a", "b", "c", "d", "e", "f">>

RECURSIVE HexDigest(_)
\* .hexdigest(): two lowercase hexadecimal digits per byte.
HexDigest(bytes) ==
    IF bytes = <<>> THEN <<>>
    ELSE <<HexDigits[(Head(bytes) \div 16) + 1], HexDigits[(Head(bytes) % 16) + 1]>>
         \o HexDigest(Tail(bytes))

LowerChar(c) ==
    CASE c = "A" -> "a" [] c = "B" -> "b" [] c = "C" -> "c"
      [] c = "D" -> "d" [] c = "E" -> "e" [] c = "F" -> "f"
      [] OTHER -> c

UpperChar(c) ==
    CASE c = "a" -> "A" [] c = "b" -> "B" [] c = "c" -> "C"
      [] c = "d" -> "D" [] c = "e" -> "E" [] c = "f" -> "F"
      [] OTHER -> c

\* str.lower()
Lower(s) == MapSeq(LowerChar, s)

Upper(s) == MapSeq(UpperChar, s)

\* Path.resolve(strict=True): follows links and makes the path absolute.
ResolveKeepsRelative(p) == [abs |-> p.abs, name |-> Canonical(p.name)]

Resolve(p) == [abs |-> TRUE, name |-> Canonical(p.name)]

\* file_hash != expected_hash.lower()
MismatchNoLower(fh, eh) == fh # eh

Mismatch(fh, eh) == fh # Lower(eh)

\* _HashesMismatch(file=file, file_hash=file_hash, expected_hash=expected_hash)
HashesMismatchLowered(f, fh, eh) ==
    [file |-> f, file_hash |-> fh, expected_hash |-> Lower(eh)]

HashesMismatch(f, fh, eh) == [file |-> f, file_hash |-> fh, expected_hash |-> eh]

\* The four print() calls of compare_files_to_hashes for one record.
ReportLines(rec) ==
    << <<"File doesn't match expected value:", rec.file>>,
       <<"File hash:", rec.file_hash>>,
       <<"Expected value:", rec.expected_hash>>,
       <<>> >>

NoError == [type |-> "none", pos |-> 0, files_num |-> -1, hashes_num |-> -1]

Raise(type, pos) == [type |-> type, pos |-> pos, files_num |-> -1, hashes_num |-> -1]

\* UnequalFileHashNumberError(files_num=..., hashes_num=...)
UnequalFileHashNumberError(fn, hn) ==
    [type |-> "UnequalFileHashNumberError", pos |-> 0, files_num |-> fn, hashes_num |-> hn]

\* Exit status of the __main__ block: sys.exit(message) and an uncaught
\* exception both end the process with status 1, a normal return with 0.
ExitStatusUncaughtIsZero(err) ==
    IF err.type \in {"UnequalFileHashNumberError", "FileNotFoundError"} THEN 1 ELSE 0

ExitStatus(err) == IF err.type = "none" THEN 0 ELSE 1

\* What the __main__ block writes to stderr.
ErrorMessage(err) ==
    CASE err.type = "none" -> <<>>
      [] err.type = "UnequalFileHashNumberError" ->
           <<"Error: Unequal number of files and hashes.", err.files_num, err.hashes_num>>
      [] err.type = "FileNotFoundError" -> <<"Error:", err.type, err.pos>>
      [] OTHER -> <<"Traceback", err.type>>

Event(ev, pos) == [ev |-> ev, pos |-> pos]

(******************************** the inputs *******************************)

SeqsUpTo(S, n) == UNION {[1..k -> S] : k \in 0..n}

\* Expected hashes tried with an algorithm: the digest of each regular file,
\* the same in upper case, and a hash that matches nothing.
HashInputs(alg) ==
    LET a == IF alg \in HashlibAlgorithms THEN alg ELSE DefaultHashFunction
        da == HexDigest(DigestBytes(Content("a"), a))
        db == HexDigest(DigestBytes(Content("b"), a))
    IN {da, Upper(da), db, <<"D", "e">>}

Init ==
    /\ entry \in {"main", "compare"}
    /\ \E opt \in IF entry = "main" THEN HashFunctionChoices \cup {"<absent>"}
                  ELSE {"sha256", "sha224", "sha225"} :
          hash_func = ParseHashFunction(opt)
    /\ args_files \in IF entry = "main" THEN SeqsUpTo(MainPaths, MaxLen) \ {<<>>}
                      ELSE SeqsUpTo(DirectPaths, MaxLen)
    /\ args_hashes \in IF entry = "main" THEN SeqsUpTo(HashInputs(hash_func), MaxLen) \ {<<>>}
                       ELSE SeqsUpTo(HashInputs(hash_func), MaxLen)
    /\ files = IF entry = "main" THEN [lazy |-> TRUE, items |-> <<>>]
               ELSE [lazy |-> FALSE, items |-> args_files]
    /\ pc = IF entry = "main" THEN "main" ELSE "zip_next"
    /\ i = 0
    /\ file = RelPath("")
    /\ expected_hash = <<>>
    /\ file_hash = <<>>
    /\ pending = NoError
    /\ open_handles = {}
    /\ output = <<>>
    /\ error = NoError
    /\ exit_status = -1
    /\ stderr = <<>>
    /\ trace = <<>>

(******************************** the actions ******************************)

\* main(), from the return of parse_args to the call of the comparator, with
\* the files resolved by a list instead of a generator expression.
Main_CheckLengthsEager ==
    /\ pc = "main"
    /\ IF Len(args_files) # Len(args_hashes)
       THEN /\ error' = UnequalFileHashNumberError(Len(args_files), Len(args_hashes))
            /\ pc' = "raised"
            /\ UNCHANGED <<files, trace>>
       ELSE LET bad == {k \in 1..Len(args_files) : ~Exists(args_files[k].name)}
                stop == IF bad = {} THEN Len(args_files)
                        ELSE CHOOSE k \in bad : \A j \in bad : k <= j
            IN /\ trace' = trace \o [k \in 1..stop |-> Event("resolve", k)]
               /\ IF bad = {}
                  THEN /\ files' = [lazy |-> FALSE, items |-> MapSeq(Resolve, args_files)]
                       /\ pc' = "zip_next"
                       /\ error' = error
                  ELSE /\ error' = Raise("FileNotFoundError", stop)
                       /\ pc' = "raised"
                       /\ files' = files
    /\ UNCHANGED <<entry, args_files, args_hashes, hash_func, i, file, expected_hash,
                   file_hash, pending, open_handles, output, exit_status, stderr>>

\* main() without its length check.
Main_NoLengthCheck ==
    /\ pc = "main"
    /\ files' = [lazy |-> TRUE, items |-> args_files]
    /\ pc' = "zip_next"
    /\ UNCHANGED <<entry, args_files, args_hashes, hash_func, i, file, expected_hash,
                   file_hash, pending, open_handles, output, error, exit_status,
                   stderr, trace>>

\* main(), from the return of parse_args to the call of the comparator: the
\* length check, then the (not yet started) generator over args.files.
Main_CheckLengths ==
    /\ pc = "main"
    /\ IF Len(args_files) # Len(args_hashes)
       THEN /\ error' = UnequalFileHashNumberError(Len(args_files), Len(args_hashes))
            /\ pc' = "raised"
            /\ files' = files
       ELSE /\ files' = [lazy |-> TRUE, items |-> args_files]
            /\ pc' = "zip_next"
            /\ error' = error
    /\ UNCHANGED <<entry, args_files, args_hashes, hash_func, i, file, expected_hash,
                   file_hash, pending, open_handles, output, exit_status, stderr, trace>>

UnchangedInputs == UNCHANGED <<entry, args_files, args_hashes, hash_func>>

\* zip(files, expected_hashes) without strict=True: stops at the shorter one.
Zip_NextNotStrict ==
    /\ pc = "zip_next"
    /\ IF i < Len(files.items) /\ (files.lazy => Exists(files.items[i + 1].name))
          /\ i < Len(args_hashes)
       THEN /\ file' = IF files.lazy THEN Resolve(files.items[i + 1]) ELSE files.items[i + 1]
            /\ trace' = IF files.lazy THEN Append(trace, Event("resolve", i + 1)) ELSE trace
            /\ expected_hash' = args_hashes[i + 1]
            /\ i' = i + 1
            /\ pc' = "digest"
            /\ error' = error
       ELSE /\ IF i < Len(files.items) /\ i < Len(args_hashes)
               THEN /\ error' = Raise("FileNotFoundError", i + 1)
                    /\ trace' = Append(trace, Event("resolve", i + 1))
                    /\ pc' = "raised"
               ELSE /\ pc' = "returned"
                    /\ UNCHANGED <<error, trace>>
            /\ UNCHANGED <<file, expected_hash, i>>
    /\ UnchangedInputs
    /\ UNCHANGED <<files, file_hash, pending, open_handles, output, exit_status, stderr>>

\* One step of `for file, expected_hash in zip(files, expected_hashes,
\* strict=True)`: the next file is taken first (in a run through main this
\* runs the generator, which resolves the path), then the next expected hash.
Zip_Next ==
    /\ pc = "zip_next"
    /\ IF i < Len(files.items)
       THEN LET raw == files.items[i + 1] IN
            IF files.lazy /\ ~Exists(raw.name)
            THEN /\ error' = Raise("FileNotFoundError", i + 1)
                 /\ trace' = Append(trace, Event("resolve", i + 1))
                 /\ pc' = "raised"
                 /\ UNCHANGED <<file, expected_hash, i>>
            ELSE /\ trace' = IF files.lazy THEN Append(trace, Event("resolve", i + 1))
                             ELSE trace
                 /\ IF i < Len(args_hashes)
                    THEN /\ file' = IF files.lazy THEN Resolve(raw) ELSE raw
                         /\ expected_hash' = args_hashes[i + 1]
                         /\ i' = i + 1
                         /\ pc' = "digest"
                         /\ error' = error
                    ELSE /\ error' = Raise("ValueError(zip: argument 2 is shorter)", i + 1)
                         /\ pc' = "raised"
                         /\ UNCHANGED <<file, expected_hash, i>>
       ELSE /\ IF i < Len(args_hashes)
               THEN /\ error' = Raise("ValueError(zip: argument 2 is longer)", i + 1)
                    /\ pc' = "raised"
               ELSE /\ pc' = "returned"
                    /\ error' = error
            /\ UNCHANGED <<file, expected_hash, i, trace>>
    /\ UnchangedInputs
    /\ UNCHANGED <<files, file_hash, pending, open_handles, output, exit_status, stderr>>

\* _digest_hex_file_hash up to file.open("rb"): the assertions, then the open.
Digest_Open ==
    /\ pc = "digest"
    /\ IF ~file.abs
       THEN /\ error' = Raise("AssertionError", i)
            /\ pc' = "raised"
            /\ UNCHANGED <<open_handles, trace>>
       ELSE IF ~Exists(file.name)
       THEN /\ error' = Raise("FileNotFoundError", i)
            /\ pc' = "raised"
            /\ UNCHANGED <<open_handles, trace>>
       ELSE IF ~Openable(file.name)
       THEN /\ error' = Raise("PermissionError", i)
            /\ pc' = "raised"
            /\ UNCHANGED <<open_handles, trace>>
       ELSE /\ open_handles' = open_handles \cup {i}
            /\ trace' = Append(trace, Event("open", i))
            /\ pc' = "file_digest"
            /\ error' = error
    /\ UnchangedInputs
    /\ UNCHANGED <<files, i, file, expected_hash, file_hash, pending, output,
                   exit_status, stderr>>

\* The body of the digest step without the `with` statement: an exception
\* leaves the function at once.
Digest_FileDigestNoWith ==
    /\ pc = "file_digest"
    /\ IF hash_func \notin HashlibAlgorithms
       THEN /\ error' = Raise("ValueError(unsupported hash type)", i)
            /\ pc' = "raised"
            /\ UNCHANGED <<file_hash, trace>>
       ELSE IF ~Readable(file.name)
       THEN /\ error' = Raise("OSError", i)
            /\ pc' = "raised"
            /\ UNCHANGED <<file_hash, trace>>
       ELSE /\ file_hash' = HexDigest(DigestBytes(Content(file.name), hash_func))
            /\ trace' = Append(trace, Event("digest", i))
            /\ pc' = "with_exit"
            /\ error' = error
    /\ UnchangedInputs
    /\ UNCHANGED <<files, i, file, expected_hash, pending, open_handles, output,
                   exit_status, stderr>>

\* hashlib.file_digest(file_to_digest, hash_func) inside the `with` block:
\* hashlib.new(hash_func) first, then the whole file is read. An exception is
\* in flight until the `with` statement has closed the file.
Digest_FileDigest ==
    /\ pc = "file_digest"
    /\ IF hash_func \notin HashlibAlgorithms
       THEN /\ pending' = Raise("ValueError(unsupported hash type)", i)
            /\ UNCHANGED <<file_hash, trace>>
       ELSE IF ~Readable(file.name)
       THEN /\ pending' = Raise("OSError", i)
            /\ UNCHANGED <<file_hash, trace>>
       ELSE /\ file_hash' = HexDigest(DigestBytes(Content(file.name), hash_func))
            /\ trace' = Append(trace, Event("digest", i))
            /\ pending' = pending
    /\ pc' = "with_exit"
    /\ UnchangedInputs
    /\ UNCHANGED <<files, i, file, expected_hash, open_handles, output, error,
                   exit_status, stderr>>

\* The end of the `with` block, swallowing the exception in flight and going
\* on with the next pair.
Digest_CloseSuppress ==
    /\ pc = "with_exit"
    /\ open_handles' = open_handles \ {i}
    /\ trace' = Append(trace, Event("close", i))
    /\ pending' = NoError
    /\ pc' = IF pending # NoError THEN "zip_next" ELSE "compare"
    /\ UnchangedInputs
    /\ UNCHANGED <<files, i, file, expected_hash, file_hash, output, error,
                   exit_status, stderr>>

\* The end of the `with` block: the file is closed, then the exception in
\* flight (if any) propagates, else hexdigest() is returned.
Digest_Close ==
    /\ pc = "with_exit"
    /\ open_handles' = open_handles \ {i}
    /\ trace' = Append(trace, Event("close", i))
    /\ IF pending # NoError
       THEN /\ error' = pending
            /\ pending' = NoError
            /\ pc' = "raised"
       ELSE /\ pc' = "compare"
            /\ UNCHANGED <<error, pending>>
    /\ UnchangedInputs
    /\ UNCHANGED <<files, i, file, expected_hash, file_hash, output, exit_status, stderr>>

\* `if file_hash != expected_hash.lower():` in _check_hash_mismatches; a
\* mismatch is yielded to compare_files_to_hashes, a match goes on with the loop.
Check_Compare ==
    /\ pc = "compare"
    /\ trace' = Append(trace, Event("compare", i))
    /\ pc' = IF Mismatch(file_hash, expected_hash) THEN "print" ELSE "zip_next"
    /\ UnchangedInputs
    /\ UNCHANGED <<files, i, file, expected_hash, file_hash, pending, open_handles,
                   output, error, exit_status, stderr>>

\* The loop body of compare_files_to_hashes for the yielded record; the
\* generator is resumed afterwards.
Compare_Print ==
    /\ pc = "print"
    /\ output' = output \o ReportLines(HashesMismatch(file, file_hash, expected_hash))
    /\ trace' = Append(trace, Event("report", i))
    /\ pc' = "zip_next"
    /\ UnchangedInputs
    /\ UNCHANGED <<files, i, file, expected_hash, file_hash, pending, open_handles,
                   error, exit_status, stderr>>

\* The __main__ block: main() returned, or raised an exception that is either
\* caught (sys.exit with a message) or ends the interpreter.
Main_Exit ==
    /\ entry = "main"
    /\ pc \in {"raised", "returned"}
    /\ exit_status' = ExitStatus(error)
    /\ stderr' = ErrorMessage(error)
    /\ pc' = "done"
    /\ UnchangedInputs
    /\ UNCHANGED <<files, i, file, expected_hash, file_hash, pending, open_handles,
                   output, error, trace>>

\* compare_files_to_hashes called directly: it returns or raises to its caller.
Compare_Return ==
    /\ entry = "compare"
    /\ pc \in {"raised", "returned"}
    /\ pc' = "done"
    /\ UnchangedInputs
    /\ UNCHANGED <<files, i, file, expected_hash, file_hash, pending, open_handles,
                   output, error, exit_status, stderr, trace>>

Next ==
    \/ Main_CheckLengths
    \/ Zip_Next
    \/ Digest_Open
    \/ Digest_FileDigest
    \/ Digest_Close
    \/ Check_Compare
    \/ Compare_Print
    \/ Main_Exit
    \/ Compare_Return

Spec == Init /\ [][Next]_vars

TypeOK ==
    /\ entry \in {"main", "compare"}
    /\ pc \in {"main", "zip_next", "digest", "file_digest", "with_exit", "compare",
               "print", "raised", "returned", "done"}
    /\ i \in 0..Len(args_files)
    /\ exit_status \in {-1, 0, 1}

(************************ vocabulary of the properties *********************)

Min(a, b) == IF a < b THEN a ELSE b

Terminated == pc = "done"

EqualLengths == Len(args_files) = Len(args_hashes)

\* Positions common to both argument lists.
CommonLen == Min(Len(args_files), Len(args_hashes))

Happened(ev, k) == \E n \in 1..Len(trace) : trace[n] = Event(ev, k)

HappenedBefore(ev, k, n) == \E m \in 1..(n - 1) : trace[m] = Event(ev, k)

Count(ev, k) == Cardinality({n \in 1..Len(trace) : trace[n] = Event(ev, k)})

\* The digest of the file at position k, and whether it differs from the
\* lower-cased k-th expected hash.
DigestAt(k) == HexDigest(DigestBytes(Content(args_files[k].name), hash_func))

MismatchAt(k) == DigestAt(k) # Lower(args_hashes[k])

IsReport(e) == e.ev = "report"

Position(e) == e.pos

\* Positions of the report blocks emitted so far, in order of emission.
ReportedPositions == MapSeq(Position, SelectSeq(trace, IsReport))

\* The mismatching positions among 1..n, in increasing order.
MismatchPositions(n) == SelectSeq([k \in 1..n |-> k], MismatchAt)

FileAccessErrors == {"FileNotFoundError", "PermissionError", "OSError"}

ZipLengthErrors == {"ValueError(zip: argument 2 is shorter)",
                    "ValueError(zip: argument 2 is longer)"}

\* The access to the file at position k fails: it does not resolve, does not
\* open, or fails while hashlib reads it.
AccessFails(k) ==
    LET name == args_files[k].name IN
    \/ ~Exists(name)
    \/ ~Openable(name)
    \/ (hash_func \in HashlibAlgorithms /\ ~Readable(name))

(********************************** claims *********************************)

\* C1: in a run over equal-length sequences that ends without an error, the
\* report blocks are exactly those of the positions whose digest differs from
\* the lower-cased expected hash, in increasing order, one block of four
\* lines each, and nothing else is printed.
C1_ReportsExactlyMismatches ==
    (Terminated /\ error.type = "none" /\ EqualLengths) =>
        /\ ReportedPositions = MismatchPositions(Len(args_files))
        /\ Len(output) = 4 * Len(ReportedPositions)

\* A finished error-free run of two pairs, one matching through an upper-case
\* expected hash and one reported.
C1_Witness ==
    /\ Terminated /\ error.type = "none" /\ Len(args_files) = 2 /\ EqualLengths
    /\ Len(ReportedPositions) = 1
    /\ \E k \in 1..2 : args_hashes[k] # Lower(args_hashes[k]) /\ ~MismatchAt(k)

\* C2 (as stated): the comparator, given sequences of different lengths,
\* fails at once with the length-mismatch error carrying both counts, before
\* any file is digested and before any report is emitted.
C2_ComparatorFailsFast ==
    (entry = "compare" /\ ~EqualLengths) =>
        /\ trace = <<>>
        /\ output = <<>>
        /\ Terminated =>
              error = UnequalFileHashNumberError(Len(args_files), Len(args_hashes))

\* C2 (amended): the comparator, given sequences of different lengths, always
\* ends in an error, never the counted length-mismatch error and never
\* opening or digesting a file beyond the common prefix; when no pair of the common
\* prefix fails, the error is zip's ValueError, carrying no counts, raised
\* after every pair of the common prefix was digested and its mismatch reported.
C2_ComparatorFailsAfterCommonPrefix ==
    (entry = "compare" /\ ~EqualLengths) =>
        /\ \A n \in 1..Len(trace) : trace[n].pos <= CommonLen
        /\ error.type # "UnequalFileHashNumberError"
        /\ Terminated => error.type # "none"
        /\ error.type \in ZipLengthErrors =>
              /\ \A k \in 1..CommonLen : Happened("digest", k) /\ Happened("compare", k)
              /\ ReportedPositions = MismatchPositions(CommonLen)
              /\ Len(output) = 4 * Len(ReportedPositions)
              /\ error.files_num = -1 /\ error.hashes_num = -1

\* The comparator called with one more expected hash than files ended in the
\* zip error after reporting a mismatch.
C2_Witness ==
    /\ entry = "compare" /\ Terminated
    /\ Len(args_hashes) = Len(args_files) + 1
    /\ error.type \in ZipLengthErrors
    /\ Len(output) = 4

\* C3: through main, different numbers of files and hashes raise
\* UnequalFileHashNumberError with both actual counts, and by then nothing
\* was resolved, opened, digested or printed.
C3_MainLengthCheckFirst ==
    (entry = "main" /\ ~EqualLengths /\ pc # "main") =>
        /\ error = UnequalFileHashNumberError(Len(args_files), Len(args_hashes))
        /\ trace = <<>>
        /\ output = <<>>
        /\ open_handles = {}
        /\ i = 0

\* main raised the error for one file and two hashes.
C3_Witness ==
    /\ entry = "main" /\ pc = "raised"
    /\ Len(args_files) = 1 /\ Len(args_hashes) = 2
    /\ error.type = "UnequalFileHashNumberError"
    /\ error.files_num = 1 /\ error.hashes_num = 2

\* C4: through main, once the access to the file at position k is attempted
\* and fails, nothing happens at a later position, the run ends with a
\* file-access error at k, and after an error nothing more is resolved,
\* digested or printed and the error stays.
C4_AccessErrorStops ==
    /\ [](entry = "main" =>
            \A k \in 1..Len(args_files) :
                (AccessFails(k) /\ Happened("resolve", k)) =>
                    /\ \A n \in 1..Len(trace) : trace[n].pos <= k
                    /\ i <= k
                    /\ (pc \in {"raised", "done"}) =>
                          (error.type \in FileAccessErrors /\ error.pos = k))
    /\ [][error.type # "none" =>
            (error' = error /\ output' = output /\ trace' = trace /\ i' = i)]_vars

\* A run through main reported a mismatch for the first file and then failed
\* on the second with a file-access error.
C4_Witness ==
    /\ entry = "main" /\ Terminated /\ Len(args_files) = 2
    /\ error.type \in FileAccessErrors /\ error.pos = 2
    /\ Len(output) = 4
    /\ exit_status = 1

\* C5: a run started through main never ends in an unsupported-algorithm
\* error, every accepted identifier being one hashlib can compute.
C5_NoUnsupportedAlgorithm ==
    entry = "main" => error.type # "ValueError(unsupported hash type)"

\* C6: every report block is, in this order, the resolved (absolute,
\* link-free) path of its position, the lowercase digest of that file, the
\* expected hash exactly as supplied, and a blank line.
C6_ReportBlockContent ==
    /\ Len(output) = 4 * Len(ReportedPositions)
    /\ \A j \in 1..Len(ReportedPositions) :
          LET k == ReportedPositions[j]
              path == [abs |-> entry = "main" \/ args_files[k].abs,
                       name |-> IF entry = "main" THEN Canonical(args_files[k].name)
                                ELSE args_files[k].name]
          IN /\ output[4 * j - 3] = <<"File doesn't match expected value:", path>>
             /\ output[4 * j - 2] = <<"File hash:", DigestAt(k)>>
             /\ DigestAt(k) = Lower(DigestAt(k))
             /\ output[4 * j - 1] = <<"Expected value:", args_hashes[k]>>
             /\ output[4 * j] = <<>>

\* A block was printed for a linked file whose expected hash has upper-case letters.
C6_Witness ==
    /\ entry = "main"
    /\ \E j \in 1..Len(ReportedPositions) :
          LET k == ReportedPositions[j] IN
          /\ args_hashes[k] # Lower(args_hashes[k])
          /\ args_files[k].name = "l"

\* C7: the process exits with status zero exactly when both lists have the
\* same length and every pair was resolved and digested; a length mismatch
\* and a resolution failure each give a non-zero status.
C7_ExitStatus ==
    (entry = "main" /\ Terminated) =>
        /\ exit_status = 0 <=>
              /\ EqualLengths
              /\ \A k \in 1..Len(args_files) : Happened("resolve", k) /\ Happened("digest", k)
        /\ ~EqualLengths => exit_status # 0
        /\ (\E k \in 1..Len(args_files) : Happened("resolve", k) /\ ~Exists(args_files[k].name))
              => exit_status # 0

\* Exit with status zero after a reported mismatch.
C7_Witness ==
    /\ entry = "main" /\ Terminated /\ exit_status = 0
    /\ Len(output) > 0

\* C8: through main, the path at position k is resolved only after every
\* earlier pair was digested, compared and, if mismatching, reported; when
\* the path at k fails to resolve, the reports of all mismatching positions
\* below k are already printed.
C8_ResolveInterleaved ==
    entry = "main" =>
        /\ \A n \in 1..Len(trace) :
              trace[n].ev = "resolve" =>
                 \A j \in 1..(trace[n].pos - 1) :
                    /\ HappenedBefore("digest", j, n)
                    /\ HappenedBefore("compare", j, n)
                    /\ MismatchAt(j) => HappenedBefore("report", j, n)
        /\ \A k \in 1..Len(args_files) :
              (error.type = "FileNotFoundError" /\ error.pos = k) =>
                 /\ ReportedPositions = MismatchPositions(k - 1)
                 /\ Len(output) = 4 * Len(ReportedPositions)

\* The second path failed to resolve after the first pair's mismatch was reported.
C8_Witness ==
    /\ entry = "main" /\ pc = "raised"
    /\ error.type = "FileNotFoundError" /\ error.pos = 2
    /\ ReportedPositions = <<1>>
    /\ Len(output) = 4

\* C9: through main, each path is resolved at most once and before its file
\* is opened, the path in the digest engine is absolute, and the engine's
\* assertion never fails.
C9_ResolvedOnceBeforeDigest ==
    entry = "main" =>
        /\ error.type # "AssertionError"
        /\ \A k \in 1..Len(args_files) : Count("resolve", k) <= 1
        /\ \A n \in 1..Len(trace) :
              trace[n].ev = "open" => HappenedBefore("resolve", trace[n].pos, n)
        /\ (pc \in {"digest", "file_digest", "with_exit"}) => file.abs

\* Two relative paths, one of them a link, were resolved and opened.
C9_Witness ==
    /\ entry = "main" /\ Terminated
    /\ Happened("open", 1) /\ Happened("open", 2)
    /\ \E k \in 1..2 : args_files[k] = RelPath("l")

\* C10: at most one file is open at any time, and no file is open outside the
\* `with` block: not when the digests are compared, not when the next pair
\* is taken, not after the digest step raised.
C10_HandleScoped ==
    /\ Cardinality(open_handles) <= 1
    /\ (pc \notin {"file_digest", "with_exit"}) => open_handles = {}
    /\ \A n \in 1..Len(trace) :
          trace[n].ev \in {"compare", "report"} => HappenedBefore("close", trace[n].pos, n)
    /\ \A n \in 1..Len(trace) :
          (trace[n].ev = "open" /\ trace[n].pos > 1) =>
              HappenedBefore("close", trace[n].pos - 1, n)

\* Reading the second file failed and its handle was closed before the error
\* left the digest step.
C10_Witness ==
    /\ pc = "raised" /\ error.type = "OSError" /\ error.pos = 2
    /\ Happened("close", 2)
    /\ open_handles = {}
====
